---- MODULE Spec2Model ----
(***************************************************************************)
(* Model of the UDP position relay of src/tools/multiplayer.py:            *)
(* UDPLobbyServer (start/stop/_loop) and UDPClient (start/stop/send/       *)
(* _listen), the sockets they own and the threads they spawn.              *)
(*                                                                         *)
(* Two UDPClient instances "A" and "B" and the raw UDP peers "X", "Y", "Z"  *)
(* (any program with a datagram socket) talk to one UDPLobbyServer.  One   *)
(* caller thread issues the API calls; each start() spawns a background    *)
(* thread whose position in the loop is the pc of its thread record.       *)
(***************************************************************************)
EXTENDS Integers, Sequences, FiniteSets, TLC

(* ------------------------------ bounds -------------------------------- *)
\* threads one instance may spawn over its life
MaxThreads == 2
\* datagrams originated by clients and raw peers in one behaviour
MaxDatagrams == 3
\* last value of the wall clock
MaxTime == 31

(* ------------------------- program constants -------------------------- *)
\* `now - self.clients[c] > 30.0`
StaleAfter == 30

Clients == {"A", "B"}
RawPeers == {"X", "Y", "Z"}
Peers == Clients \cup RawPeers

\* code points of the texts passed to send(): "H", U+00E9, a lone surrogate
Texts == {<<72>>, <<233>>, <<55296>>}

\* payloads of the raw peer: "H", a lead byte with nothing after it, the two
\* bytes of U+00E9, a stray continuation byte before "A"
RawPayloads == {<<72>>, <<195>>, <<195, 169>>, <<169, 65>>}

(* --------------------------- UTF-8 codec ------------------------------ *)
IsSurrogate(cp) == cp >= 55296 /\ cp <= 57343

\* str.encode("utf-8") succeeds unless the text holds a lone surrogate
CanEncode(text) == \A i \in 1..Len(text) : ~IsSurrogate(text[i])

EncodeChar(cp) ==
  IF cp < 128 THEN <<cp>>
  ELSE IF cp < 2048 THEN <<192 + (cp \div 64), 128 + (cp % 64)>>
  ELSE IF cp < 65536
    THEN <<224 + (cp \div 4096), 128 + ((cp \div 64) % 64), 128 + (cp % 64)>>
  ELSE <<240 + (cp \div 262144), 128 + ((cp \div 4096) % 64),
         128 + ((cp \div 64) % 64), 128 + (cp % 64)>>

RECURSIVE Encode(_)
Encode(text) ==
  IF text = <<>> THEN <<>> ELSE EncodeChar(Head(text)) \o Encode(Tail(text))

IsCont(b) == b >= 128 /\ b <= 191

\* number of bytes of the well-formed UTF-8 sequence starting at b[i], or 0
SeqLenAt(b, i) ==
  LET n == Len(b)
      b1 == b[i]
      Cont(j) == j <= n /\ IsCont(b[j])
  IN IF b1 < 128 THEN 1
     ELSE IF b1 >= 194 /\ b1 <= 223 THEN (IF Cont(i + 1) THEN 2 ELSE 0)
     ELSE IF b1 >= 224 /\ b1 <= 239
       THEN (IF /\ Cont(i + 1) /\ Cont(i + 2)
                /\ (b1 = 224 => b[i + 1] >= 160)
                /\ (b1 = 237 => b[i + 1] <= 159)
             THEN 3 ELSE 0)
     ELSE IF b1 >= 240 /\ b1 <= 244
       THEN (IF /\ Cont(i + 1) /\ Cont(i + 2) /\ Cont(i + 3)
                /\ (b1 = 240 => b[i + 1] >= 144)
                /\ (b1 = 244 => b[i + 1] <= 143)
             THEN 4 ELSE 0)
     ELSE 0

CodePointAt(b, i, k) ==
  IF k = 1 THEN b[i]
  ELSE IF k = 2 THEN (b[i] - 192) * 64 + (b[i + 1] - 128)
  ELSE IF k = 3
    THEN (b[i] - 224) * 4096 + (b[i + 1] - 128) * 64 + (b[i + 2] - 128)
  ELSE (b[i] - 240) * 262144 + (b[i + 1] - 128) * 4096
       + (b[i + 2] - 128) * 64 + (b[i + 3] - 128)

RECURSIVE DecodeFrom(_, _)
DecodeFrom(b, i) ==
  IF i > Len(b) THEN <<>>
  ELSE LET k == SeqLenAt(b, i)
       IN IF k = 0 THEN DecodeFrom(b, i + 1)
          ELSE <<CodePointAt(b, i, k)>> \o DecodeFrom(b, i + k)

\* a decode with a one-byte codec
DecodeLatin1(b) == b

\* bytes.decode("utf-8", errors="ignore"): undecodable bytes are skipped
Decode(b) == DecodeFrom(b, 1)

\* the bytes are well-formed UTF-8 (a strict decode would not raise)
WellFormed(b) == Encode(Decode(b)) = b


(* ------------------------------ state --------------------------------- *)
VARIABLES
  now,        \* time.time(), in seconds
  sRunning,   \* UDPLobbyServer.running
  sSock,      \* UDPLobbyServer.sock: "open" (bound in __init__) or "closed"
  sThread,    \* UDPLobbyServer.thread: 0 for None, else an index of sThreads
  sThreads,   \* every thread the server has spawned, with its position
  clients,    \* UDPLobbyServer.clients: the dict, in insertion order
  sQueue,     \* receive queue of the server socket
  cRunning,   \* UDPClient.running, per client
  cSock,      \* UDPClient.sock: "unbound", "bound" or "closed"
  cThread,    \* UDPClient.thread
  cThreads,   \* every listener thread the client has spawned
  cQueue,     \* receive queue of the client socket
  onMessage,  \* whether UDPClient.on_message is set
  caller,     \* the thread that calls the API: idle or inside a stop()
  nSent,      \* datagrams originated so far
  fan,        \* history: the last datagram the server processed
  recvd,      \* history: payloads each client's recvfrom has returned
  handled,    \* history: arguments of each client's handler invocations
  op,         \* history: the last step taken
  world,      \* the World passed to find_path: cell, cols, rows, tiles
  start_pos,  \* the start position passed to find_path
  target_pos, \* the target position passed to find_path
  search,     \* the last find_path call: its locals as it returned, its result
  first,      \* history: arguments and result of the first find_path call
  late,       \* history: datagrams each instance processed since its stop()
  evicted,    \* history: the addresses a sweep has removed
  other_players, \* GameWindow.other_players: peer id to (x, y)
  frame       \* history: the last message given to _on_network_msg

vars == <<now, sRunning, sSock, sThread, sThreads, clients, sQueue,
          cRunning, cSock, cThread, cThreads, cQueue, onMessage,
          caller, nSent, fan, recvd, handled, op,
          world, start_pos, target_pos, search, first,
          late, evicted, other_players, frame>>

netVars == <<now, sRunning, sSock, sThread, sThreads, clients, sQueue,
             cRunning, cSock, cThread, cThreads, cQueue, onMessage,
             caller, nSent, fan, recvd, handled, op, late, evicted>>

pathVars == <<world, start_pos, target_pos, search, first>>

gameVars == <<other_players, frame>>

serverVars == <<sRunning, sSock, sThread, sThreads, clients, sQueue>>
clientVars == <<cRunning, cSock, cThread, cThreads, cQueue>>
histVars == <<fan, recvd, handled>>

NewThread(entry) == [pc |-> entry, data |-> <<>>, addr |-> "none"]

Op(name, who) ==
  [name |-> name, who |-> who, raised |-> FALSE, tries |-> 0, tx |-> 0]

\* the steps no property looks back at leave no trace in op
Quiet == Op("step", "none")

\* fan.at and fan.reg: the time of the registration and the registry it
\* left; fan.sweptAt: the time of the sweep that followed, -1 before it
NoFan ==
  [src |-> "none", data |-> <<>>, keys |-> <<>>, attempts |-> <<>>,
   at |-> 0, reg |-> <<>>, sweptAt |-> -1]

Idle == [pc |-> "idle", who |-> "none"]

SetPc(threads, t, pc) == [threads EXCEPT ![t] = NewThread(pc)]

\* a thread is blocked inside recvfrom
Blocked(threads) == \E i \in 1..Len(threads) : threads[i].pc = "recv"

\* The kernel socket takes datagrams while the descriptor is open, and
\* while a recvfrom that began before close() is still blocked on it.
Live(sock, threads) == sock \in {"open", "bound"} \/ Blocked(threads)

\* the receive queue is released with the kernel socket
QueueOf(sock, threads, q) == IF Live(sock, threads) THEN q ELSE <<>>

\* Thread.is_alive()
Alive(th) == th.pc \notin {"done", "failed", "crashed"}

(* ------------------------- the peer registry -------------------------- *)
DictKeys(d) == [i \in 1..Len(d) |-> d[i].addr]

DictHas(d, k) == \E i \in 1..Len(d) : d[i].addr = k

\* d[k] = v: an existing key keeps its place, a new key goes last
DictSet(d, k, v) ==
  IF DictHas(d, k)
  THEN [i \in 1..Len(d) |->
          IF d[i].addr = k THEN [addr |-> k, seen |-> v] ELSE d[i]]
  ELSE Append(d, [addr |-> k, seen |-> v])

Range(s) == {s[i] : i \in 1..Len(s)}

InitNet ==
  /\ now = 0
  /\ sRunning = FALSE
  /\ sSock = "open"
  /\ sThread = 0
  /\ sThreads = <<>>
  /\ clients = <<>>
  /\ sQueue = <<>>
  /\ cRunning = [c \in Clients |-> FALSE]
  /\ cSock = [c \in Clients |-> "unbound"]
  /\ cThread = [c \in Clients |-> 0]
  /\ cThreads = [c \in Clients |-> <<>>]
  /\ cQueue = [c \in Clients |-> <<>>]
  /\ onMessage \in [Clients -> BOOLEAN]
  /\ caller = Idle
  /\ nSent = 0
  /\ fan = NoFan
  /\ recvd = [c \in Clients |-> <<>>]
  /\ handled = [c \in Clients |-> <<>>]
  /\ op = Op("init", "none")
  /\ late = [w \in {"server"} \cup Clients |-> 0]
  /\ evicted = {}

(* -------------------- scripts/pathfinding.py: A* --------------------- *)
\* columns and rows of the grids searched, and how many of their tiles are
\* water
GridCols == 3
GridRows == 2
MaxBlocked == 2

\* `BLOCKED_KINDS = {"water"}`
BLOCKED_KINDS == {"water"}

\* `g_score.get(nb, 1_000_000)`
Unreached == 1000000

Abs(n) == IF n < 0 THEN -n ELSE n

\* `int(x / world.cell)`: the quotient cut off towards zero
cell_from_posTruncated(w, x, y) ==
  <<IF x < 0 THEN -((-x) \div w.cell) ELSE x \div w.cell,
    IF y < 0 THEN -((-y) \div w.cell) ELSE y \div w.cell>>

\* `int(x // world.cell)`: the floor of the quotient, below zero too
cell_from_pos(w, x, y) == <<x \div w.cell, y \div w.cell>>

\* a walkability test that does not look at the kind of the tile
is_walkableAnyKind(w, cx, cy) ==
  /\ cx >= 0 /\ cy >= 0 /\ cx < w.cols /\ cy < w.rows
  /\ cy * w.cols + cx < Len(w.tiles)

\* the bounds test, then `world.tiles[idx].kind`, an IndexError of which
\* gives False
is_walkable(w, cx, cy) ==
  IF cx < 0 \/ cy < 0 \/ cx >= w.cols \/ cy >= w.rows THEN FALSE
  ELSE LET idx == cy * w.cols + cx
       IN IF idx >= Len(w.tiles) THEN FALSE
          ELSE w.tiles[idx + 1] \notin BLOCKED_KINDS

\* `for dx, dy in ((1,0),(-1,0),(0,1),(0,-1))`
Directions == << <<1, 0>>, <<-1, 0>>, <<0, 1>>, <<0, -1>> >>

\* neighbours along the diagonals too
neighborsDiagonal(w, cx, cy) ==
  SelectSeq([i \in 1..8 |->
               <<cx + (<<1, -1, 0, 0, 1, 1, -1, -1>>)[i],
                 cy + (<<0, 0, 1, -1, 1, -1, 1, -1>>)[i]>>],
            LAMBDA nb : is_walkable(w, nb[1], nb[2]))

neighbors(w, cx, cy) ==
  SelectSeq([i \in 1..Len(Directions) |->
               <<cx + Directions[i][1], cy + Directions[i][2]>>],
            LAMBDA nb : is_walkable(w, nb[1], nb[2]))

\* a heuristic that counts every step to the goal three times
heuristicTripled(a, b) == 3 * (Abs(a[1] - b[1]) + Abs(a[2] - b[2]))

heuristic(a, b) == Abs(a[1] - b[1]) + Abs(a[2] - b[2])

\* set.add(x)
Add(set, x) == {e : e \in set \cup {x}}

\* d[k] = v on a dict keyed by cells
Put(d, k, v) == (k :> v) @@ d

\* `path = [current]; while current in came_from: ...`, before the reverse
RECURSIVE BackLinks(_, _)
BackLinks(came_from, current) ==
  IF current \in DOMAIN came_from
  THEN <<current>> \o BackLinks(came_from, came_from[current])
  ELSE <<current>>

Reverse(s) == [i \in 1..Len(s) |-> s[Len(s) + 1 - i]]

\* the list of the walk back, without `path.reverse()`
reconstructBackwards(came_from, current) == BackLinks(came_from, current)

reconstruct(came_from, current) == Reverse(BackLinks(came_from, current))

\* the order of the heap entries (f, (cx, cy)): Python compares the tuples
\* item by item
EntryLess(a, b) ==
  \/ a[1] < b[1]
  \/ a[1] = b[1] /\ a[2][1] < b[2][1]
  \/ a[1] = b[1] /\ a[2][1] = b[2][1] /\ a[2][2] < b[2][2]

\* a stack instead of a heap: the entry pushed last
heappopLast(open_set) == Len(open_set)

\* a queue that keeps entries of equal f-score in the order of their pushes
heappopStable(open_set) ==
  CHOOSE i \in 1..Len(open_set) :
    \A j \in 1..Len(open_set) :
      /\ open_set[i][1] <= open_set[j][1]
      /\ open_set[j][1] = open_set[i][1] => i <= j

\* heapq.heappop returns a least entry: its place in the list of the entries
\* pushed and not yet popped (entries that compare equal are the same value)
heappop(open_set) ==
  CHOOSE i \in 1..Len(open_set) :
    \A j \in 1..Len(open_set) :
      /\ ~EntryLess(open_set[j], open_set[i])
      /\ open_set[j] = open_set[i] => i <= j

Remove(s, i) == SubSeq(s, 1, i - 1) \o SubSeq(s, i + 1, Len(s))

\* `c[0] * world.cell + world.cell/2` on each axis
Center(w, c) ==
  <<c[1] * w.cell + w.cell \div 2, c[2] * w.cell + w.cell \div 2>>

\* find_path before it was ever called: no locals, nothing returned
NoRun ==
  [open_set |-> <<>>, came_from |-> <<>>, g_score |-> <<>>,
   f_score |-> <<>>, visited |-> {}, pops |-> <<>>, pushes |-> <<>>,
   result |-> <<>>, done |-> FALSE]

\* one set of visited cells kept from call to call
BeginKeepVisited(prev, start, goal) ==
  [open_set |-> << <<0, start>> >>,
   came_from |-> <<>>,
   g_score |-> Put(<<>>, start, 0),
   f_score |-> Put(<<>>, start, heuristic(start, goal)),
   visited |-> prev.visited,
   pops |-> <<>>,
   pushes |-> << <<0, start>> >>,
   result |-> <<>>,
   done |-> FALSE]

\* lines 73 to 78: the locals of a call are built anew, whatever an
\* earlier call (prev) left behind
Begin(prev, start, goal) ==
  [open_set |-> << <<0, start>> >>,
   came_from |-> <<>>,
   g_score |-> Put(<<>>, start, 0),
   f_score |-> Put(<<>>, start, heuristic(start, goal)),
   visited |-> {},
   pops |-> <<>>,
   pushes |-> << <<0, start>> >>,
   result |-> <<>>,
   done |-> FALSE]

\* the loop over the neighbours with `tentative_g <= g_score.get(...)`
RECURSIVE RelaxNotStrict(_, _, _, _)
RelaxNotStrict(s, current, nbs, goal) ==
  IF nbs = <<>> THEN s
  ELSE LET nb == Head(nbs)
           tentative_g == s.g_score[current] + 1
           known == IF nb \in DOMAIN s.g_score THEN s.g_score[nb]
                    ELSE Unreached
           f == tentative_g + heuristic(nb, goal)
           push == nb \notin s.visited
           s1 == IF tentative_g <= known
                 THEN [s EXCEPT
                         !.came_from = Put(@, nb, current),
                         !.g_score = Put(@, nb, tentative_g),
                         !.f_score = Put(@, nb, f),
                         !.open_set = IF push THEN Append(@, <<f, nb>>)
                                      ELSE @,
                         !.pushes = IF push THEN Append(@, <<f, nb>>)
                                    ELSE @]
                 ELSE s
       IN RelaxNotStrict(s1, current, Tail(nbs), goal)

\* `for nb in neighbors(world, *current):` over the neighbours left
RECURSIVE Relax(_, _, _, _)
Relax(s, current, nbs, goal) ==
  IF nbs = <<>> THEN s
  ELSE LET nb == Head(nbs)
           tentative_g == s.g_score[current] + 1
           known == IF nb \in DOMAIN s.g_score THEN s.g_score[nb]
                    ELSE Unreached
           f == tentative_g + heuristic(nb, goal)
           push == nb \notin s.visited
           s1 == IF tentative_g < known
                 THEN [s EXCEPT
                         !.came_from = Put(@, nb, current),
                         !.g_score = Put(@, nb, tentative_g),
                         !.f_score = Put(@, nb, f),
                         !.open_set = IF push THEN Append(@, <<f, nb>>)
                                      ELSE @,
                         !.pushes = IF push THEN Append(@, <<f, nb>>)
                                    ELSE @]
                 ELSE s
       IN Relax(s1, current, Tail(nbs), goal)

\* one turn of `while open_set:`; a search that has returned stays as it is
Step(w, goal, s) ==
  IF s.done THEN s
  ELSE IF s.open_set = <<>> THEN [s EXCEPT !.result = <<>>, !.done = TRUE]
  ELSE LET i == heappop(s.open_set)
           entry == s.open_set[i]
           current == entry[2]
           popped == [s EXCEPT !.open_set = Remove(@, i),
                               !.pops = Append(@, entry)]
       IN IF current = goal
          THEN LET cells == reconstruct(popped.came_from, current)
               IN [popped EXCEPT
                     !.result = [k \in 1..Len(cells) |-> Center(w, cells[k])],
                     !.done = TRUE]
          ELSE Relax([popped EXCEPT !.visited = Add(@, current)],
                     current, neighbors(w, current[1], current[2]), goal)

\* eight turns of the loop
Turns(w, goal, s) ==
  Step(w, goal, Step(w, goal, Step(w, goal, Step(w, goal,
  Step(w, goal, Step(w, goal, Step(w, goal, Step(w, goal, s))))))))

\* `while open_set:` to the return
RECURSIVE Search(_, _, _)
Search(w, goal, s) ==
  IF s.done THEN s ELSE Search(w, goal, Turns(w, goal, s))

\* lines 67 to 78: the cells of the two positions, `return []` when one of
\* them is not walkable, the locals of the search otherwise
Entry(prev, w, sp, tp) ==
  LET start == cell_from_pos(w, sp[1], sp[2])
      goal == cell_from_pos(w, tp[1], tp[2])
  IN IF \/ ~is_walkable(w, start[1], start[2])
        \/ ~is_walkable(w, goal[1], goal[2])
     THEN [prev EXCEPT !.result = <<>>, !.done = TRUE]
     ELSE Begin(prev, start, goal)

\* find_path called after the call that left prev: the locals and the list
\* returned
Run(prev, w, sp, tp) ==
  Search(w, cell_from_pos(w, tp[1], tp[2]), Entry(prev, w, sp, tp))

find_path(w, sp, tp) == Run(NoRun, w, sp, tp).result

\* a search that paints the tiles it has visited
WorldPainted(w, visited) ==
  [w EXCEPT !.tiles = [i \in 1..Len(w.tiles) |->
      IF <<(i - 1) % w.cols, (i - 1) \div w.cols>> \in visited
      THEN "path" ELSE w.tiles[i]]]

\* the world once find_path has returned: the search reads world.cell,
\* world.cols, world.rows and world.tiles[idx].kind and assigns to none
WorldAfter(w, visited) == w

(* ----------------------- the worlds searched -------------------------- *)
\* World.generate_forest: one tile per cell, row by row
Tiles(cols, rows, water) ==
  [i \in 1..cols * rows |->
     IF <<(i - 1) % cols, (i - 1) \div cols>> \in water
     THEN "water" ELSE "grass"]

GridCells == (0..GridCols - 1) \X (0..GridRows - 1)

\* every grid of GridCols by GridRows cells of which at most MaxBlocked are
\* water
SmallWorlds ==
  {[cell |-> 2, cols |-> GridCols, rows |-> GridRows,
    tiles |-> Tiles(GridCols, GridRows, water)] :
     water \in {b \in SUBSET GridCells : Cardinality(b) <= MaxBlocked}}

\* a world loaded from a map file that has tiles for the first row only
ShortWorld ==
  [cell |-> 2, cols |-> GridCols, rows |-> GridRows,
   tiles |-> Tiles(GridCols, 1, {})]

\* 10 by 10 cells of 32 units, column 5 water in rows 0 to 8
WallWorld ==
  [cell |-> 32, cols |-> 10, rows |-> 10,
   tiles |-> Tiles(10, 10, {5} \X (0..8))]

\* 4 by 4 cells of 2 units, water in the cells (1,1) and (2,1)
BlockWorld ==
  [cell |-> 2, cols |-> 4, rows |-> 4,
   tiles |-> Tiles(4, 4, {<<1, 1>>, <<2, 1>>})]

Worlds == SmallWorlds \cup {ShortWorld, WallWorld}

\* `self.blocked_kinds = {"water", "den"}`
blocked_kinds == {"water", "den"}

\* World.generate_forest ends with the den: one tile of the grid, whatever
\* kind it had, becomes "den"
DenWorlds ==
  {[cell |-> 2, cols |-> GridCols, rows |-> GridRows,
    tiles |-> [Tiles(GridCols, GridRows, water)
                 EXCEPT ![den[2] * GridCols + den[1] + 1] = "den"]] :
     den \in GridCells,
     water \in {b \in SUBSET GridCells : Cardinality(b) < MaxBlocked}}

\* World.tile_at: the tile of the cell the position lies in, "none" for None
tile_at(w, x, y) ==
  LET cx == x \div w.cell
      cy == y \div w.cell
  IN IF cx < 0 \/ cy < 0 \/ cx >= w.cols \/ cy >= w.rows THEN "none"
     ELSE IF cy * w.cols + cx >= Len(w.tiles) THEN "none"
     ELSE w.tiles[cy * w.cols + cx + 1]

\* World.is_walkable
World_is_walkable(w, x, y) ==
  LET t == tile_at(w, x, y)
  IN IF t = "none" THEN FALSE ELSE t \notin blocked_kinds

NoWorld == [cell |-> 1, cols |-> 0, rows |-> 0, tiles |-> <<>>]

\* the positions asked about: in a small world the center of every cell, a
\* corner of the first cell, and one position beyond each edge; in the
\* big one the centers of four cells
Positions(w) ==
  IF w = WallWorld
  THEN {Center(w, c) : c \in {<<0, 0>>, <<9, 0>>, <<5, 0>>, <<5, 9>>}}
  ELSE {Center(w, c) : c \in (0..w.cols - 1) \X (0..w.rows - 1)}
       \cup {<<0, 0>>, <<-1, 1>>, <<1, -1>>,
             <<w.cols * w.cell, 1>>, <<1, w.rows * w.cell>>}

\* first.again: whether a later call had the arguments of the first one,
\* directly or after a call with other arguments (first.other)
NoCall ==
  [made |-> FALSE, start_pos |-> <<0, 0>>, target_pos |-> <<0, 0>>,
   result |-> <<>>, again |-> "no", other |-> FALSE]

\* `new_path = find_path(world, sp, tp)`
FindPath(sp, tp) ==
  /\ LET run == Run(search, world, sp, tp)
     IN /\ search' = run
        /\ world' = WorldAfter(world, run.visited)
        /\ first' =
             IF ~first.made
             THEN [made |-> TRUE, start_pos |-> sp, target_pos |-> tp,
                   result |-> run.result, again |-> "no", other |-> FALSE]
             ELSE IF sp = first.start_pos /\ tp = first.target_pos
             THEN [first EXCEPT !.again = IF first.other THEN "after another"
                                          ELSE IF @ = "no" THEN "directly"
                                          ELSE @]
             ELSE [first EXCEPT !.other = TRUE]
  /\ start_pos' = sp
  /\ target_pos' = tp
  /\ UNCHANGED <<netVars, gameVars>>

\* find_path is entered: lines 67 to 78
Enter(sp, tp) ==
  /\ ~first.made
  /\ search' = Entry(search, world, sp, tp)
  /\ first' = [NoCall EXCEPT !.made = TRUE, !.start_pos = sp,
                             !.target_pos = tp]
  /\ start_pos' = sp
  /\ target_pos' = tp
  /\ UNCHANGED world
  /\ UNCHANGED <<netVars, gameVars>>

\* one turn of `while open_set:` of the call entered
Turn ==
  /\ first.made
  /\ ~search.done
  /\ search' = Step(world, cell_from_pos(world, first.target_pos[1],
                                         first.target_pos[2]), search)
  /\ UNCHANGED <<world, start_pos, target_pos, first>>
  /\ UNCHANGED <<netVars, gameVars>>

\* no world has been built and no path asked for
InitGrid ==
  /\ world = NoWorld
  /\ start_pos = <<0, 0>>
  /\ target_pos = <<0, 0>>
  /\ search = NoRun
  /\ first = NoCall

(* ------------------ GameWindow: the network handler ------------------ *)
\* texts are sequences of characters
POS == <<"P", "O", "S">>

HELLO == <<"H", "E", "L", "L", "O">>

\* `self._net_id`: the id of this window (a uuid, which holds no "|")
NetId == <<"A">>

PeerIds == {<<"B">>, <<"C">>}

DigitChars == <<"0", "1", "2", "3", "4", "5", "6", "7", "8", "9">>

\* `f"{int(self.player_x)}"`: the decimal text of an integer
RECURSIVE Str(_)
Str(n) ==
  IF n < 0 THEN <<"-">> \o Str(-n)
  ELSE IF n < 10 THEN <<DigitChars[n + 1]>>
  ELSE Str(n \div 10) \o <<DigitChars[(n % 10) + 1]>>

\* "|".join(fields)
RECURSIVE Join(_)
Join(fields) ==
  IF fields = <<>> THEN <<>>
  ELSE IF Len(fields) = 1 THEN fields[1]
  ELSE fields[1] \o <<"|">> \o Join(Tail(fields))

\* msg.split("|")
RECURSIVE Split(_)
Split(msg) ==
  IF \A i \in 1..Len(msg) : msg[i] # "|" THEN <<msg>>
  ELSE LET i == CHOOSE k \in 1..Len(msg) :
                  msg[k] = "|" /\ \A j \in 1..(k - 1) : msg[j] # "|"
       IN <<SubSeq(msg, 1, i - 1)>> \o Split(SubSeq(msg, i + 1, Len(msg)))

IsDigits(text) ==
  /\ text # <<>>
  /\ \A i \in 1..Len(text) : \E d \in 1..10 : DigitChars[d] = text[i]

RECURSIVE Digits(_)
Digits(text) ==
  IF text = <<>> THEN 0
  ELSE 10 * Digits(SubSeq(text, 1, Len(text) - 1))
       + (CHOOSE d \in 0..9 : DigitChars[d + 1] = text[Len(text)])

\* float(text) raises ValueError: of the texts made of digits, "-" and
\* letters, the ones that are not an optional "-" and then digits
FloatRaises(text) ==
  ~ \/ IsDigits(text)
    \/ text # <<>> /\ text[1] = "-" /\ IsDigits(Tail(text))

\* float(text) where it does not raise
Float(text) ==
  IF text[1] = "-" THEN -Digits(Tail(text)) ELSE Digits(text)

\* a handler that stores the frames of its own id too
on_network_msgOwn(players, msg) ==
  IF msg = <<>> THEN players
  ELSE LET parts == Split(msg)
       IN IF parts[1] = POS /\ Len(parts) >= 4
          THEN IF FloatRaises(parts[3]) \/ FloatRaises(parts[4]) THEN players
               ELSE Put(players, parts[2],
                        [x |-> Float(parts[3]), y |-> Float(parts[4])])
          ELSE players

\* GameWindow._on_network_msg: other_players after the message
on_network_msg(players, msg) ==
  IF msg = <<>> THEN players
  ELSE LET parts == Split(msg)
       IN IF parts[1] = POS /\ Len(parts) >= 4
          THEN LET pid == parts[2]
               IN IF pid = NetId THEN players
                  ELSE IF FloatRaises(parts[3]) \/ FloatRaises(parts[4])
                  THEN players
                  ELSE Put(players, pid,
                           [x |-> Float(parts[3]), y |-> Float(parts[4])])
          ELSE players

\* the frames received: a tag, an id, two coordinates that are numbers
\* (num, with the value val) or not, of which the first n fields are sent;
\* a fifth field, where sent, is "z"
CoordTexts(values, others) ==
  {[num |-> TRUE, val |-> v, text |-> Str(v)] : v \in values}
  \cup {[num |-> FALSE, val |-> 0, text |-> t] : t \in others}

Frames ==
  [tag : {POS, HELLO}, pid : {NetId} \cup PeerIds,
   x : CoordTexts({-1, 12}, {<<>>, <<"x">>, <<"1", "x">>}),
   y : CoordTexts({7}, {<<"-">>}), n : 0..5]

FieldsOf(f) == SubSeq(<<f.tag, f.pid, f.x.text, f.y.text, <<"z">> >>, 1, f.n)

NoFrame ==
  [tag |-> <<>>, pid |-> <<>>, x |-> [num |-> FALSE, val |-> 0, text |-> <<>>],
   y |-> [num |-> FALSE, val |-> 0, text |-> <<>>], n |-> 0,
   was |-> [key |-> FALSE, x |-> 0, y |-> 0]]

\* the listener thread calls the handler with a decoded message; frame.was:
\* the entry other_players had for the id of the frame
NetworkMsg(f) ==
  /\ other_players' = on_network_msg(other_players, Join(FieldsOf(f)))
  /\ frame' = [tag |-> f.tag, pid |-> f.pid, x |-> f.x, y |-> f.y, n |-> f.n,
               was |-> IF f.pid \in DOMAIN other_players
                       THEN [key |-> TRUE, x |-> other_players[f.pid].x,
                             y |-> other_players[f.pid].y]
                       ELSE [key |-> FALSE, x |-> 0, y |-> 0]]
  /\ UNCHANGED <<netVars, pathVars>>

InitGame ==
  /\ other_players = <<>>
  /\ frame = NoFrame

Init == InitNet /\ InitGrid /\ InitGame

(* --------------------------- UDPLobbyServer --------------------------- *)
\* start() without `if self.running: return`
NeverRunning(running) == FALSE

\* `if self.running: return`
AlreadyRunning(running) == running

\* UDPLobbyServer.start
ServerStart ==
  /\ caller.pc = "idle"
  /\ IF AlreadyRunning(sRunning)
     THEN UNCHANGED <<sRunning, sThread, sThreads, late>>
     ELSE /\ Len(sThreads) < MaxThreads
          /\ sRunning' = TRUE
          /\ late' = [late EXCEPT !["server"] = 0]
          /\ sThreads' = Append(sThreads, NewThread("check"))
          /\ sThread' = Len(sThreads) + 1
  /\ op' = Op("start", "server")
  /\ UNCHANGED <<now, sSock, clients, sQueue, clientVars, onMessage,
                 caller, nSent, histVars>>
  /\ UNCHANGED <<evicted, pathVars, gameVars>>

\* UDPLobbyServer.stop, first statement: `self.running = False`
ServerStopBegin ==
  /\ caller.pc = "idle"
  /\ sRunning' = FALSE
  /\ late' = [late EXCEPT !["server"] = 0]
  /\ caller' = [pc |-> "join", who |-> "server"]
  /\ op' = Quiet
  /\ UNCHANGED <<now, sSock, sThread, sThreads, clients, sQueue, clientVars,
                 onMessage, nSent, histVars>>
  /\ UNCHANGED <<evicted, pathVars, gameVars>>

\* `if self.thread and self.thread.is_alive(): self.thread.join(timeout=1.0)`
\* returns when the thread has ended or when the timeout has run out
ServerStopJoin ==
  /\ caller = [pc |-> "join", who |-> "server"]
  /\ caller' = [pc |-> "close", who |-> "server"]
  /\ op' = Quiet
  /\ UNCHANGED <<now, serverVars, clientVars, onMessage, nSent, histVars>>
  /\ UNCHANGED <<late, evicted, pathVars, gameVars>>

\* stop() returning before the close when no thread was ever started
ServerStopCloseLeak ==
  /\ caller = [pc |-> "close", who |-> "server"]
  /\ sSock' = IF sThread = 0 THEN sSock ELSE "closed"
  /\ sQueue' = QueueOf(sSock', sThreads, sQueue)
  /\ caller' = Idle
  /\ op' = Op("stop", "server")
  /\ UNCHANGED <<now, sRunning, sThread, sThreads, clients, clientVars,
                 onMessage, nSent, histVars>>
  /\ UNCHANGED <<late, evicted, pathVars, gameVars>>

\* `self.sock.close()`, an OSError of which is logged and not raised
ServerStopClose ==
  /\ caller = [pc |-> "close", who |-> "server"]
  /\ sSock' = "closed"
  /\ sQueue' = QueueOf("closed", sThreads, sQueue)
  /\ caller' = Idle
  /\ op' = Op("stop", "server")
  /\ UNCHANGED <<now, sRunning, sThread, sThreads, clients, clientVars,
                 onMessage, nSent, histVars>>
  /\ UNCHANGED <<late, evicted, pathVars, gameVars>>

\* a loop that goes on to the next receive whatever the running flag says
ServerLoopTopUntested(t) ==
  /\ sThreads[t].pc = "check"
  /\ sThreads' = SetPc(sThreads, t,
                   IF sSock = "open" THEN "recv" ELSE "failed")
  /\ op' = Quiet
  /\ UNCHANGED <<now, sRunning, sSock, sThread, clients, sQueue, clientVars,
                 onMessage, caller, nSent, histVars>>
  /\ UNCHANGED <<late, evicted, pathVars, gameVars>>

\* `while self.running:` and the call of recvfrom, which fails at once on a
\* closed socket and blocks on an open one
ServerLoopTop(t) ==
  /\ sThreads[t].pc = "check"
  /\ sThreads' = SetPc(sThreads, t,
                   IF ~sRunning THEN "done"
                   ELSE IF sSock = "open" THEN "recv" ELSE "failed")
  /\ op' = Quiet
  /\ UNCHANGED <<now, sRunning, sSock, sThread, clients, sQueue, clientVars,
                 onMessage, caller, nSent, histVars>>
  /\ UNCHANGED <<late, evicted, pathVars, gameVars>>

\* recvfrom returns the next datagram
ServerRecv(t) ==
  /\ sThreads[t].pc = "recv"
  /\ sQueue # <<>>
  /\ sThreads' = [sThreads EXCEPT ![t] =
        [pc |-> "got", data |-> Head(sQueue).data, addr |-> Head(sQueue).src]]
  /\ sQueue' = QueueOf(sSock, sThreads', Tail(sQueue))
  /\ op' = Quiet
  /\ UNCHANGED <<now, sRunning, sSock, sThread, clients, clientVars,
                 onMessage, caller, nSent, histVars>>
  /\ UNCHANGED <<late, evicted, pathVars, gameVars>>

\* recvfrom raises OSError (a transport error, or the socket was closed
\* under the blocked call): `except OSError: break`
ServerRecvFail(t) ==
  /\ sThreads[t].pc = "recv"
  /\ sThreads' = SetPc(sThreads, t, "failed")
  /\ sQueue' = QueueOf(sSock, sThreads', sQueue)
  /\ op' = Quiet
  /\ UNCHANGED <<now, sRunning, sSock, sThread, clients, clientVars,
                 onMessage, caller, nSent, histVars>>
  /\ UNCHANGED <<late, evicted, pathVars, gameVars>>

\* the fan-out without `if client_addr == addr: continue`
FanoutTargetsEcho(reg, addr) == reg

\* `for client_addr in list(self.clients.keys()): if client_addr == addr:
\* continue`: the entries a datagram from addr is forwarded to
FanoutTargets(reg, addr) == SelectSeq(reg, LAMBDA e : e.addr # addr)

\* the fan-out with the OSError of a sendto ending the for loop
ForwardAbort(targets, data, failing, t) ==
  LET bad == {i \in 1..Len(targets) : targets[i].addr \in failing}
      n == IF bad = {} THEN Len(targets)
           ELSE CHOOSE i \in bad : \A j \in bad : i <= j
  IN [i \in 1..n |->
        [to |-> targets[i].addr, data |-> data,
         ok |-> targets[i].addr \notin failing, age |-> t - targets[i].seen]]

\* one sendto per target in dict order; an OSError is passed over
\* a server that keeps the datagram of the round before and sends it along
ForwardReplay(targets, data, failing, t) ==
  [i \in 1..2 * Len(targets) |->
     LET k == ((i - 1) % Len(targets)) + 1
     IN [to |-> targets[k].addr,
         data |-> IF i <= Len(targets) THEN data ELSE fan.data,
         ok |-> targets[k].addr \notin failing, age |-> t - targets[k].seen]]

Forward(targets, data, failing, t) ==
  [i \in 1..Len(targets) |->
     [to |-> targets[i].addr, data |-> data,
      ok |-> targets[i].addr \notin failing, age |-> t - targets[i].seen]]

\* the datagrams the attempts put into the receive queue of address a
RECURSIVE Arrivals(_, _, _)
Arrivals(att, a, origin) ==
  IF att = <<>> THEN <<>>
  ELSE (IF Head(att).to = a /\ Head(att).ok
        THEN <<[data |-> Head(att).data, origin |-> origin]>> ELSE <<>>)
       \o Arrivals(Tail(att), a, origin)

\* under the lock: `self.clients[addr] = time.time()` and the fan-out;
\* failing is the set of targets whose sendto raises OSError, which is every
\* target once the socket is closed
ServerProcess(t, failing) ==
  /\ sThreads[t].pc = "got"
  /\ LET th == sThreads[t]
         reg == DictSet(clients, th.addr, now)
         targets == FanoutTargets(reg, th.addr)
         att == Forward(targets, th.data, failing, now)
     IN /\ failing \subseteq Range(DictKeys(targets))
        /\ sSock = "closed" => failing = Range(DictKeys(targets))
        /\ clients' = reg
        /\ fan' = [src |-> th.addr, data |-> th.data,
                   keys |-> DictKeys(reg), attempts |-> att,
                   at |-> now, reg |-> reg, sweptAt |-> -1]
        /\ cQueue' = [c \in Clients |->
                        IF Live(cSock[c], cThreads[c])
                        THEN cQueue[c] \o Arrivals(att, c, th.addr)
                        ELSE cQueue[c]]
        /\ sThreads' = [sThreads EXCEPT ![t].pc = "sweep"]
        /\ late' = [late EXCEPT !["server"] = IF sRunning THEN @ ELSE @ + 1]
  /\ op' = Op("s_process", "server")
  /\ UNCHANGED <<now, sRunning, sSock, sThread, sQueue, cRunning, cSock,
                 cThread, cThreads, onMessage, caller, nSent, recvd, handled>>
  /\ UNCHANGED <<evicted, pathVars, gameVars>>

\* a sweep that also drops the peers last heard exactly 30 s ago
IsStaleAt(t, seen) == t - seen >= StaleAfter

\* `now - self.clients[c] > 30.0`
IsStale(t, seen) == t - seen > StaleAfter

\* `now = time.time()` and the sweep under the lock
ServerSweep(t) ==
  /\ sThreads[t].pc = "sweep"
  /\ clients' = SelectSeq(clients, LAMBDA e : ~IsStale(now, e.seen))
  /\ evicted' = evicted \cup
                  (Range(DictKeys(clients)) \ Range(DictKeys(clients')))
  /\ fan' = [fan EXCEPT !.sweptAt = now]
  /\ sThreads' = SetPc(sThreads, t, "check")
  /\ op' = Quiet
  /\ UNCHANGED <<now, sRunning, sSock, sThread, sQueue, clientVars,
                 onMessage, caller, nSent, recvd, handled>>
  /\ UNCHANGED <<late, pathVars, gameVars>>

(* ------------------------------ UDPClient ----------------------------- *)
\* UDPClient.start
ClientStart(c) ==
  /\ caller.pc = "idle"
  /\ IF AlreadyRunning(cRunning[c])
     THEN UNCHANGED <<cRunning, cThread, cThreads, late>>
     ELSE /\ Len(cThreads[c]) < MaxThreads
          /\ cRunning' = [cRunning EXCEPT ![c] = TRUE]
          /\ late' = [late EXCEPT ![c] = 0]
          /\ cThreads' = [cThreads EXCEPT ![c] = Append(@, NewThread("bind"))]
          /\ cThread' = [cThread EXCEPT ![c] = Len(cThreads[c]) + 1]
  /\ op' = Op("start", c)
  /\ UNCHANGED <<now, serverVars, cSock, cQueue, onMessage, caller, nSent,
                 histVars>>
  /\ UNCHANGED <<evicted, pathVars, gameVars>>

\* UDPClient.stop, first statement: `self.running = False`
ClientStopBegin(c) ==
  /\ caller.pc = "idle"
  /\ cRunning' = [cRunning EXCEPT ![c] = FALSE]
  /\ late' = [late EXCEPT ![c] = 0]
  /\ caller' = [pc |-> "join", who |-> c]
  /\ op' = Quiet
  /\ UNCHANGED <<now, serverVars, cSock, cThread, cThreads, cQueue,
                 onMessage, nSent, histVars>>
  /\ UNCHANGED <<evicted, pathVars, gameVars>>

\* `self.thread.join(timeout=0.5)` when the thread is alive
ClientStopJoin(c) ==
  /\ caller = [pc |-> "join", who |-> c]
  /\ caller' = [pc |-> "close", who |-> c]
  /\ op' = Quiet
  /\ UNCHANGED <<now, serverVars, clientVars, onMessage, nSent, histVars>>
  /\ UNCHANGED <<late, evicted, pathVars, gameVars>>

\* `self.sock.close()`, an OSError of which is ignored
ClientStopClose(c) ==
  /\ caller = [pc |-> "close", who |-> c]
  /\ cSock' = [cSock EXCEPT ![c] = "closed"]
  /\ cQueue' = [cQueue EXCEPT ![c] = QueueOf("closed", cThreads[c], @)]
  /\ caller' = Idle
  /\ op' = Op("stop", c)
  /\ UNCHANGED <<now, serverVars, cRunning, cThread, cThreads, onMessage,
                 nSent, histVars>>
  /\ UNCHANGED <<late, evicted, pathVars, gameVars>>

\* send() without the try block around sendto
SendPropagates(oserror) == oserror

\* `except OSError: pass` around sendto: what send() raises to its caller
SendRaises(oserror) == FALSE

\* sendto is called once, whatever its outcome
SendTries(oserror) == 1

\* UDPClient.send.  encode raises UnicodeEncodeError on a lone surrogate,
\* before the try block.  sendto binds an unbound socket to a free port,
\* and raises OSError on a closed socket or a transport failure (fail).
ClientSend(c, text, fail) ==
  /\ caller.pc = "idle"
  /\ IF ~CanEncode(text)
     THEN /\ ~fail
          /\ op' = [Op("send", c) EXCEPT !.raised = TRUE]
          /\ UNCHANGED <<cSock, sQueue, nSent>>
     ELSE   LET oserror == cSock[c] = "closed" \/ fail
                tx == IF oserror THEN 0 ELSE 1
            IN /\ nSent + tx <= MaxDatagrams
               /\ cSock' = IF cSock[c] = "closed" THEN cSock
                           ELSE [cSock EXCEPT ![c] = "bound"]
               /\ sQueue' = IF tx = 1 /\ Live(sSock, sThreads)
                            THEN Append(sQueue,
                                   [src |-> c, data |-> Encode(text)])
                            ELSE sQueue
               /\ nSent' = nSent + tx
               /\ op' = [Op("send", c) EXCEPT
                           !.raised = SendRaises(oserror),
                           !.tries = SendTries(oserror),
                           !.tx = tx]
  /\ UNCHANGED <<now, sRunning, sSock, sThread, sThreads, clients, cRunning,
                 cThread, cThreads, cQueue, onMessage, caller, histVars>>
  /\ UNCHANGED <<late, evicted, pathVars, gameVars>>

\* `self.sock.bind(("", 0))`: OSError, and return, on a socket that is
\* closed or that a sendto has already bound
ClientBind(c, t) ==
  /\ cThreads[c][t].pc = "bind"
  /\ IF cSock[c] = "unbound"
     THEN /\ cSock' = [cSock EXCEPT ![c] = "bound"]
          /\ cThreads' = [cThreads EXCEPT ![c] = SetPc(@, t, "check")]
     ELSE /\ cThreads' = [cThreads EXCEPT ![c] = SetPc(@, t, "done")]
          /\ UNCHANGED cSock
  /\ op' = Quiet
  /\ UNCHANGED <<now, serverVars, cRunning, cThread, cQueue, onMessage,
                 caller, nSent, histVars>>
  /\ UNCHANGED <<late, evicted, pathVars, gameVars>>

\* `while self.running:` and the call of recvfrom
ClientLoopTop(c, t) ==
  /\ cThreads[c][t].pc = "check"
  /\ cThreads' = [cThreads EXCEPT ![c] = SetPc(@, t,
        IF ~cRunning[c] THEN "done"
        ELSE IF cSock[c] = "bound" THEN "recv" ELSE "failed")]
  /\ op' = Quiet
  /\ UNCHANGED <<now, serverVars, cRunning, cSock, cThread, cQueue,
                 onMessage, caller, nSent, histVars>>
  /\ UNCHANGED <<late, evicted, pathVars, gameVars>>

\* recvfrom returns the next datagram
ClientRecv(c, t) ==
  /\ cThreads[c][t].pc = "recv"
  /\ cQueue[c] # <<>>
  /\ cThreads' = [cThreads EXCEPT ![c][t] =
        [pc |-> "got", data |-> Head(cQueue[c]).data,
         addr |-> Head(cQueue[c]).origin]]
  /\ cQueue' = [cQueue EXCEPT ![c] =
        QueueOf(cSock[c], cThreads'[c], Tail(@))]
  /\ recvd' = [recvd EXCEPT ![c] = Append(@, Head(cQueue[c]).data)]
  /\ op' = Quiet
  /\ UNCHANGED <<now, serverVars, cRunning, cSock, cThread, onMessage,
                 caller, nSent, fan, handled>>
  /\ UNCHANGED <<late, evicted, pathVars, gameVars>>

\* recvfrom raises OSError: `except OSError: break`
ClientRecvFail(c, t) ==
  /\ cThreads[c][t].pc = "recv"
  /\ cThreads' = [cThreads EXCEPT ![c] = SetPc(@, t, "failed")]
  /\ cQueue' = [cQueue EXCEPT ![c] = QueueOf(cSock[c], cThreads'[c], @)]
  /\ op' = Quiet
  /\ UNCHANGED <<now, serverVars, cRunning, cSock, cThread, onMessage,
                 caller, nSent, histVars>>
  /\ UNCHANGED <<late, evicted, pathVars, gameVars>>

\* a decode without errors="ignore"
DecodeStrict(data) == Encode(Decode(data)) # data

\* `data.decode("utf-8", errors="ignore")` raises UnicodeDecodeError
DecodeRaises(data) == FALSE

\* a loop that catches what the handler raises
AfterHandlerCaught(raises) == "check"

\* `self.on_message(msg)` is called outside any try block: what the handler
\* raises ends the thread, and the loop goes on when it returns
AfterHandler(raises) == IF raises THEN "crashed" ELSE "check"

\* the decode and `if self.on_message: self.on_message(msg)`; an exception
\* of the handler (raises) is not caught and ends the thread
ClientDeliver(c, t, raises) ==
  /\ cThreads[c][t].pc = "got"
  /\ LET data == cThreads[c][t].data
     IN IF DecodeRaises(data) \/ ~onMessage[c]
        THEN /\ ~raises
             /\ cThreads' = [cThreads EXCEPT ![c] = SetPc(@, t, "check")]
             /\ op' = Op("c_skip", c)
             /\ UNCHANGED <<handled, late>>
        ELSE /\ handled' = [handled EXCEPT ![c] = Append(@, Decode(data))]
             /\ cThreads' = [cThreads EXCEPT ![c] =
                   SetPc(@, t, AfterHandler(raises))]
             /\ op' = [Op("c_handle", c) EXCEPT !.raised = raises]
             /\ late' = [late EXCEPT ![c] = IF cRunning[c] THEN @ ELSE @ + 1]
  /\ UNCHANGED <<now, serverVars, cRunning, cSock, cThread, cQueue,
                 onMessage, caller, nSent, fan, recvd>>
  /\ UNCHANGED <<evicted, pathVars, gameVars>>

(* ---------------------------- environment ----------------------------- *)
\* a raw peer sends arbitrary bytes to the server address
RawSend(p, data) ==
  /\ nSent < MaxDatagrams
  /\ nSent' = nSent + 1
  /\ sQueue' = IF Live(sSock, sThreads)
               THEN Append(sQueue, [src |-> p, data |-> data]) ELSE sQueue
  /\ op' = Quiet
  /\ UNCHANGED <<now, sRunning, sSock, sThread, sThreads, clients,
                 clientVars, onMessage, caller, histVars>>
  /\ UNCHANGED <<late, evicted, pathVars, gameVars>>

\* a raw peer sends arbitrary bytes to the address of a client socket
RawSendTo(p, c, data) ==
  /\ nSent < MaxDatagrams
  /\ nSent' = nSent + 1
  /\ cQueue' = IF Live(cSock[c], cThreads[c])
               THEN [cQueue EXCEPT ![c] =
                       Append(@, [data |-> data, origin |-> p])]
               ELSE cQueue
  /\ op' = Quiet
  /\ UNCHANGED <<now, serverVars, cRunning, cSock, cThread, cThreads,
                 onMessage, caller, histVars>>
  /\ UNCHANGED <<late, evicted, pathVars, gameVars>>

\* UDP loses a datagram on its way to the server or to a client
LoseToServer ==
  /\ sQueue # <<>>
  /\ \E i \in 1..Len(sQueue) :
       sQueue' = SubSeq(sQueue, 1, i - 1) \o SubSeq(sQueue, i + 1, Len(sQueue))
  /\ op' = Quiet
  /\ UNCHANGED <<now, sRunning, sSock, sThread, sThreads, clients,
                 clientVars, onMessage, caller, nSent, histVars>>
  /\ UNCHANGED <<late, evicted, pathVars, gameVars>>

LoseToClient(c) ==
  /\ cQueue[c] # <<>>
  /\ \E i \in 1..Len(cQueue[c]) :
       cQueue' = [cQueue EXCEPT ![c] =
          SubSeq(@, 1, i - 1) \o SubSeq(@, i + 1, Len(@))]
  /\ op' = Quiet
  /\ UNCHANGED <<now, serverVars, cRunning, cSock, cThread, cThreads,
                 onMessage, caller, nSent, histVars>>
  /\ UNCHANGED <<late, evicted, pathVars, gameVars>>

\* the wall clock moves on
Tick ==
  /\ \E d \in {StaleAfter, StaleAfter + 1} :
       /\ now + d <= MaxTime
       /\ now' = now + d
  /\ op' = Quiet
  /\ UNCHANGED <<serverVars, clientVars, onMessage, caller, nSent, histVars>>
  /\ UNCHANGED <<late, evicted, pathVars, gameVars>>

(* --------------------------- specification ---------------------------- *)
ServerThread ==
  \E t \in 1..Len(sThreads) :
    \/ ServerLoopTop(t)
    \/ ServerRecv(t)
    \/ ServerRecvFail(t)
    \/ \E failing \in SUBSET Peers : ServerProcess(t, failing)
    \/ ServerSweep(t)

ClientThread ==
  \E c \in Clients : \E t \in 1..Len(cThreads[c]) :
    \/ ClientBind(c, t)
    \/ ClientLoopTop(c, t)
    \/ ClientRecv(c, t)
    \/ ClientRecvFail(c, t)
    \/ \E raises \in BOOLEAN : ClientDeliver(c, t, raises)

\* the whole system: every call on every instance, every thread, every peer
Next ==
  \/ ServerStart
  \/ ServerStopBegin
  \/ ServerStopJoin
  \/ ServerStopClose
  \/ \E c \in Clients : ClientStart(c)
  \/ \E c \in Clients : ClientStopBegin(c)
  \/ \E c \in Clients : ClientStopJoin(c)
  \/ \E c \in Clients : ClientStopClose(c)
  \/ \E c \in Clients, text \in Texts, fail \in BOOLEAN :
       ClientSend(c, text, fail)
  \/ ServerThread
  \/ ClientThread
  \/ \E p \in RawPeers, data \in RawPayloads : RawSend(p, data)
  \/ \E p \in RawPeers, c \in Clients, data \in RawPayloads :
       RawSendTo(p, c, data)
  \/ LoseToServer
  \/ \E c \in Clients : LoseToClient(c)
  \/ Tick

Spec == Init /\ [][Next]_vars

\* ---- the receive loop of the server, fed by the raw peers ----
\* the server does not look into a payload: one text, one that is no UTF-8
FanoutPayloads == {<<72>>, <<195>>}

InitServer == Init /\ onMessage = [c \in Clients |-> TRUE]

NextFanout ==
  \/ ServerStart
  \/ ServerThread
  \/ \E p \in RawPeers, data \in FanoutPayloads : RawSend(p, data)
  \/ LoseToServer
  \/ Tick

SpecFanout == InitServer /\ [][NextFanout]_vars

\* ---- start() and stop() of the server and of client A, against the
\* ---- threads they spawn and the datagrams of one raw peer (the payload,
\* ---- which neither call looks at, is fixed)
NextLife ==
  \/ ServerStart
  \/ ServerStopBegin
  \/ ServerStopJoin
  \/ ServerStopClose
  \/ ServerThread
  \/ ClientStart("A")
  \/ ClientStopBegin("A")
  \/ ClientStopJoin("A")
  \/ ClientStopClose("A")
  \/ ClientThread
  \/ RawSend("X", <<72>>)

SpecLife == InitServer /\ [][NextLife]_vars

\* ---- the same calls and threads, with datagrams of the raw peer that
\* ---- also arrive at the socket of client A
NextLate ==
  \/ NextLife
  \/ RawSendTo("X", "A", <<72>>)

SpecLate == InitServer /\ [][NextLate]_vars

\* ---- the same calls and threads with the scheduler's guarantees: a thread
\* ---- that can run its next statement runs it, join(timeout=1.0) and
\* ---- close() return; no datagram has to arrive, and a recvfrom that is
\* ---- already blocked does not have to fail
ServerStep(t) ==
  /\ t <= Len(sThreads)
  /\ \/ ServerLoopTop(t)
     \/ ServerRecv(t)
     \/ \E failing \in SUBSET Peers : ServerProcess(t, failing)
     \/ ServerSweep(t)

ClientStep(c, t) ==
  /\ t <= Len(cThreads[c])
  /\ \/ ClientBind(c, t)
     \/ ClientLoopTop(c, t)
     \/ ClientRecv(c, t)
     \/ \E raises \in BOOLEAN : ClientDeliver(c, t, raises)

SpecStop ==
  /\ InitServer
  /\ [][NextLife]_vars
  /\ WF_vars(ServerStopJoin) /\ WF_vars(ServerStopClose)
  /\ WF_vars(ClientStopJoin("A")) /\ WF_vars(ClientStopClose("A"))
  /\ \A t \in 1..MaxThreads : WF_vars(ServerStep(t))
  /\ \A t \in 1..MaxThreads : WF_vars(ClientStep("A", t))

\* ---- client A: its calls, its listener thread, datagrams from a raw peer
InitClient == Init /\ onMessage["B"] = TRUE

NextClient ==
  \/ ClientStart("A")
  \/ ClientStopBegin("A")
  \/ ClientStopJoin("A")
  \/ ClientStopClose("A")
  \/ \E text \in Texts, fail \in BOOLEAN : ClientSend("A", text, fail)
  \/ ClientThread
  \/ \E data \in RawPayloads : RawSendTo("X", "A", data)
  \/ LoseToClient("A")

SpecClient == InitClient /\ [][NextClient]_vars

\* ---- test_udp_lobby_forwards_pos up to its ev.wait: a server, clients A
\* ---- and B with handlers that return, no transport failure, no loss
HelloA == <<72, 69, 76, 76, 79, 124, 65>>
HelloB == <<72, 69, 76, 76, 79, 124, 66>>
PosA == <<80, 79, 83, 124, 65, 124, 49, 48, 124, 50, 48>>

InitRelay == Init /\ onMessage = [c \in Clients |-> TRUE]

\* the statements of the test function, in program order
TestScript ==
  \/ sThread = 0 /\ ServerStart
  \/ sThread # 0 /\ cThread["A"] = 0 /\ ClientStart("A")
  \/ cThread["A"] # 0 /\ cThread["B"] = 0 /\ ClientStart("B")
  \/ cThread["B"] # 0 /\ nSent = 0 /\ ClientSend("A", HelloA, FALSE)
  \/ nSent = 1 /\ ClientSend("B", HelloB, FALSE)
  \/ nSent = 2 /\ ClientSend("A", PosA, FALSE)

RelayServerThread ==
  \E t \in 1..Len(sThreads) :
    \/ ServerLoopTop(t)
    \/ ServerRecv(t)
    \/ ServerProcess(t, {})
    \/ ServerSweep(t)

RelayClientThread(c) ==
  \E t \in 1..Len(cThreads[c]) :
    \/ ClientBind(c, t)
    \/ ClientLoopTop(c, t)
    \/ ClientRecv(c, t)
    \/ ClientDeliver(c, t, FALSE)

NextRelay ==
  \/ TestScript
  \/ RelayServerThread
  \/ \E c \in Clients : RelayClientThread(c)

\* every thread that can take a step eventually takes one
SpecRelay ==
  /\ InitRelay
  /\ [][NextRelay]_vars
  /\ WF_vars(TestScript)
  /\ WF_vars(RelayServerThread)
  /\ \A c \in Clients : WF_vars(RelayClientThread(c))

\* ---- find_path on every small world and between every two positions:
\* ---- the way there, the same call again, the way back
InitPath ==
  /\ InitNet
  /\ InitGame
  /\ onMessage = [c \in Clients |-> TRUE]
  /\ world \in Worlds
  /\ start_pos \in Positions(world)
  /\ target_pos \in Positions(world)
  /\ search = NoRun
  /\ first = NoCall

NextPath ==
  \/ FindPath(start_pos, target_pos)
  \/ FindPath(target_pos, start_pos)

SpecPath == InitPath /\ [][NextPath]_vars

\* ---- one call of find_path, turn by turn of its loop, between the
\* ---- centers of every two cells of every small world with MaxBlocked
\* ---- water tiles, and between four cells of the wall world
Centers(w) ==
  IF w = WallWorld THEN Positions(w)
  ELSE {Center(w, c) : c \in (0..w.cols - 1) \X (0..w.rows - 1)}

SearchWorlds ==
  {w \in SmallWorlds :
     Cardinality({i \in 1..Len(w.tiles) : w.tiles[i] = "water"}) = MaxBlocked}
  \cup {WallWorld, BlockWorld}

InitSearch ==
  /\ InitNet
  /\ InitGame
  /\ onMessage = [c \in Clients |-> TRUE]
  /\ world \in SearchWorlds
  /\ start_pos \in Centers(world)
  /\ target_pos \in Centers(world)
  /\ search = NoRun
  /\ first = NoCall

NextSearch ==
  \/ Enter(start_pos, target_pos)
  \/ Turn

SpecSearch == InitSearch /\ [][NextSearch]_vars

\* ---- find_path on the worlds World.generate_forest leaves: a den tile
\* ---- among grass and water, between the centers of every two cells
InitDen ==
  /\ InitNet
  /\ InitGame
  /\ onMessage = [c \in Clients |-> TRUE]
  /\ world \in DenWorlds
  /\ start_pos \in Centers(world)
  /\ target_pos \in Centers(world)
  /\ search = NoRun
  /\ first = NoCall

SpecDen == InitDen /\ [][NextPath]_vars

\* ---- the network handler of one window, message after message
InitWindow == Init /\ onMessage = [c \in Clients |-> TRUE]

NextWindow == \E f \in Frames : NetworkMsg(f)

SpecWindow == InitWindow /\ [][NextWindow]_vars

(* ------------------------------ properties ---------------------------- *)
FanTargets == Range(fan.keys) \ {fan.src}

AttemptsTo(k) == {i \in DOMAIN fan.attempts : fan.attempts[i].to = k}

\* C1: for the datagram the server processed last, received from fan.src
\* with payload fan.data, the sends are exactly one send of that payload to
\* each address of the registry as it was at that moment, the sender left
\* out, and none to the sender.
C1_FanoutExact ==
  fan.src # "none" =>
    /\ \A k \in FanTargets : Cardinality(AttemptsTo(k)) = 1
    /\ \A i \in DOMAIN fan.attempts :
         /\ fan.attempts[i].to \in FanTargets
         /\ fan.attempts[i].data = fan.data
    /\ fan.src \in Range(fan.keys)
    /\ op.name = "s_process" => fan.keys = DictKeys(clients)

\* the third peer's payload, not valid UTF-8, has just gone out to both others
C1_Witness ==
  /\ op.name = "s_process"
  /\ fan.data = <<195>>
  /\ Len(fan.attempts) = 2
  /\ Cardinality(FanTargets) = 2

BothRegistered == {"A", "B"} \subseteq Range(DictKeys(clients))

\* C2: once the server has processed a datagram of A and one of B, the
\* message A then sends is eventually passed to B's handler, and no message
\* of A is ever passed to A's own handler.
C2_RelayRoundTrip ==
  /\ (nSent = 2 /\ BothRegistered) ~> (PosA \in Range(handled["B"]))
  /\ [](Range(handled["A"]) \cap {HelloA, PosA} = {})

\* C3 as claimed: no datagram is forwarded to a peer whose last datagram is
\* more than StaleAfter seconds old at the time of forwarding.
C3_TargetsAreFresh ==
  \A i \in DOMAIN fan.attempts : fan.attempts[i].age <= StaleAfter

\* C4: when a send of the fan-out fails, every target of that datagram is
\* still sent to exactly once (the failed one is not retried, the ones after
\* it are not skipped) and the thread is still in its loop afterwards.
C4_SendFailureIsolated ==
  (\E i \in DOMAIN fan.attempts : ~fan.attempts[i].ok) =>
    /\ \A k \in FanTargets : Cardinality(AttemptsTo(k)) = 1
    /\ Len(fan.attempts) = Cardinality(FanTargets)
    /\ op.name = "s_process" =>
         \E t \in 1..Len(sThreads) : sThreads[t].pc = "sweep"

\* the first of two sends failed and the second was made
C4_Witness ==
  /\ op.name = "s_process"
  /\ Len(fan.attempts) = 2
  /\ ~fan.attempts[1].ok
  /\ fan.attempts[2].ok

\* no stop() has been called on the instance yet
NeverStopped(w) ==
  /\ caller.who # w
  /\ IF w = "server" THEN sSock # "closed" ELSE cSock[w] # "closed"

ThreadsOf(w) == IF w = "server" THEN sThreads ELSE cThreads[w]

\* C5: start() on a running server or client changes nothing of that
\* instance: no thread is spawned, and thread, socket, registry and flag are
\* as they were; so whatever the number of start() calls, an instance that
\* was never stopped has spawned at most one thread.
C5_StartIdempotent ==
  /\ [][ /\ (op'.name = "start" /\ op'.who = "server" /\ sRunning) =>
              UNCHANGED <<sRunning, sSock, sThread, sThreads, clients,
                          sQueue>>
         /\ \A c \in Clients :
              (op'.name = "start" /\ op'.who = c /\ cRunning[c]) =>
                UNCHANGED <<cRunning[c], cSock[c], cThread[c], cThreads[c],
                            cQueue[c]>> ]_vars
  /\ [](\A w \in {"server"} \cup Clients :
          NeverStopped(w) => Len(ThreadsOf(w)) <= 1)

\* start() has just returned on client A, whose one thread is already
\* blocked in recvfrom, as is the one thread of the running server
C5_Witness ==
  /\ op = Op("start", "A")
  /\ Len(cThreads["A"]) = 1 /\ cThreads["A"][1].pc = "recv"
  /\ sRunning /\ Len(sThreads) = 1 /\ sThreads[1].pc = "recv"
  /\ clients # <<>>

StoppedState(w) ==
  IF w = "server" THEN ~sRunning /\ sSock = "closed"
  ELSE ~cRunning[w] /\ cSock[w] = "closed"

\* C6: a stop() that returns has raised nothing and leaves the instance not
\* running with its socket closed, started or not; and every step of a
\* stop() on an instance already in that state leaves it in that state,
\* with the same thread.
C6_StopSafe ==
  /\ [](op.name = "stop" => ~op.raised /\ StoppedState(op.who))
  /\ [][ \A w \in {"server"} \cup Clients :
           /\ caller' # caller
           /\ caller'.who = w \/ caller.who = w
           /\ StoppedState(w)
           =>
             /\ StoppedState(w)'
             /\ w = "server" => UNCHANGED <<sThread, sThreads>>
             /\ w # "server" => UNCHANGED <<cThread[w], cThreads[w]>> ]_vars

\* stop() has returned on client A and on the server, neither ever started
C6_Witness ==
  /\ op = Op("stop", "A")
  /\ cThread["A"] = 0 /\ cSock["A"] = "closed"
  /\ sThread = 0 /\ sSock = "closed" /\ ~sRunning

ServerState ==
  IF sRunning THEN "Running"
  ELSE IF sThread = 0 /\ sSock = "open" /\ caller.who # "server"
  THEN "Unstarted" ELSE "Stopped"

\* C7 as claimed: a datagram is registered and forwarded only while the
\* server is Running, never before start() or once stop() has been called.
C7_ProcessedOnlyWhileRunning ==
  op.name = "s_process" => ServerState = "Running"

\* C8: a send() whose sendto was reached raises nothing, calls sendto once
\* and transmits at most one datagram, none on a socket that stop() closed.
C8_SendBestEffort ==
  (op.name = "send" /\ op.tries > 0) =>
    /\ ~op.raised
    /\ op.tries = 1
    /\ op.tx <= 1
    /\ cSock[op.who] = "closed" => op.tx = 0

\* send() has just returned quietly on the socket of a stopped client
C8_Witness ==
  /\ op.name = "send" /\ op.who = "A"
  /\ cSock["A"] = "closed"
  /\ op.tries = 1 /\ op.tx = 0 /\ ~op.raised

\* what Python returns for payload.decode("utf-8", errors="ignore")
PyDecoded(data) ==
  CASE data = <<72>> -> <<72>>
    [] data = <<195>> -> <<>>
    [] data = <<195, 169>> -> <<233>>
    [] data = <<169, 65>> -> <<65>>

InHand(c) == {t \in 1..Len(cThreads[c]) : cThreads[c][t].pc = "got"}

\* C9: with a handler, the handler invocations are the decodings of the
\* datagrams recvfrom returned, one each and in that order, the datagram in
\* a thread's hand being the only one not yet handled; without a handler
\* nothing is invoked and the thread is back at the top of its loop.
C9_HandlerPerDatagram ==
  \A c \in Clients :
    IF onMessage[c]
    THEN /\ Cardinality(InHand(c)) <= 1
         /\ Len(recvd[c]) = Len(handled[c]) + Cardinality(InHand(c))
         /\ \A i \in 1..Len(handled[c]) :
              handled[c][i] = PyDecoded(recvd[c][i])
    ELSE /\ handled[c] = <<>>
         /\ op = Op("c_skip", c) =>
              \E t \in 1..Len(cThreads[c]) : cThreads[c][t].pc = "check"

\* two different datagrams were handled in the order they were received
C9_Witness ==
  /\ recvd["A"] = << <<195, 169>>, <<72>> >>
  /\ handled["A"] = << <<233>>, <<72>> >>

C16_ListenerSurvivesSend ==
  \A c \in Clients : \A t \in 1..Len(cThreads[c]) : Alive(cThreads[c][t])

\* C17 as claimed: once the sweep that follows a registration is done, the
\* sender is in the registry with the time of its registration, no peer of
\* the registry is older than StaleAfter at the time of the sweep, and every
\* peer that was at most that old is still there.
C17_SenderStaysRegistered ==
  fan.sweptAt >= 0 =>
    /\ [addr |-> fan.src, seen |-> fan.at] \in Range(clients)
    /\ \A e \in Range(clients) : fan.sweptAt - e.seen <= StaleAfter
    /\ \A e \in Range(fan.reg) :
         fan.sweptAt - e.seen <= StaleAfter => e \in Range(clients)

\* C17 amended: the registration enters the sender with the time of the
\* registration; once the sweep is done the registry is what the
\* registration left, in the same order, less the peers older than
\* StaleAfter at the time of the sweep, so that the sender is still there
\* unless more than StaleAfter seconds passed between its registration and
\* the sweep.
C17_SweepKeepsFresh ==
  /\ fan.src # "none" => [addr |-> fan.src, seen |-> fan.at] \in Range(fan.reg)
  /\ fan.sweptAt >= 0 =>
       /\ clients = SelectSeq(fan.reg,
                      LAMBDA e : fan.sweptAt - e.seen <= StaleAfter)
       /\ ([addr |-> fan.src, seen |-> fan.at] \in Range(clients))
            <=> (fan.sweptAt - fan.at <= StaleAfter)

\* the sweep has kept, next to the sender, a peer heard exactly StaleAfter
\* seconds before
C17_Witness ==
  /\ fan.sweptAt >= 0
  /\ [addr |-> fan.src, seen |-> fan.at] \in Range(clients)
  /\ \E e \in Range(clients) :
       e.addr # fan.src /\ fan.sweptAt - e.seen = StaleAfter

\* a receive loop of the instance has ended on a failed recvfrom
FailedLoop(w) ==
  \E t \in 1..Len(ThreadsOf(w)) : ThreadsOf(w)[t].pc = "failed"

RunningOf(w) == IF w = "server" THEN sRunning ELSE cRunning[w]

\* C18 as claimed: the step in which a recvfrom fails changes nothing for
\* the caller, and an instance one of whose loops has ended that way never
\* again registers and forwards a datagram (server) or passes one to the
\* handler stage (client), and a start() on it while its flag is still set
\* spawns nothing.
C18_InertAfterReceiveError ==
  [][ \A w \in {"server"} \cup Clients :
        /\ (FailedLoop(w)' /\ ~FailedLoop(w)) => caller' = caller
        /\ FailedLoop(w) =>
             /\ ~(op'.who = w /\ op'.name \in {"s_process", "c_handle", "c_skip"})
             /\ (op'.name = "start" /\ op'.who = w /\ RunningOf(w)) =>
                  ThreadsOf(w)' = ThreadsOf(w) ]_vars

\* C19 as claimed: a stop() that has begun returns, and every receive loop
\* the instance had when stop() returned eventually ends, with no datagram
\* having to arrive.
C19_StopEndsLoop ==
  /\ \A w \in {"server", "A"} :
       (caller = [pc |-> "join", who |-> w]) ~> (caller = Idle)
  /\ \A t \in 1..MaxThreads :
       (op = Op("stop", "server") /\ t <= Len(sThreads))
         ~> (t <= Len(sThreads) /\ ~Alive(sThreads[t]))
  /\ \A t \in 1..MaxThreads :
       (op = Op("stop", "A") /\ t <= Len(cThreads["A"]))
         ~> (t <= Len(cThreads["A"]) /\ ~Alive(cThreads["A"][t]))

\* the receive loop of client c has been ended by an exception of the handler
Crashed(c) ==
  \E t \in 1..Len(cThreads[c]) : cThreads[c][t].pc = "crashed"

\* C20: the step in which the handler raises ends the listener thread and
\* changes neither the caller nor the running flag; from then on no datagram
\* is passed to the handler of that client, and a start() on it while the
\* flag is still set spawns no thread.
C20_HandlerErrorKillsLoop ==
  [][ \A c \in Clients :
        /\ (op'.name = "c_handle" /\ op'.who = c /\ op'.raised) =>
             /\ Crashed(c)'
             /\ caller' = caller
             /\ cRunning'[c] = cRunning[c]
        /\ Crashed(c) =>
             /\ handled'[c] = handled[c]
             /\ (op'.name = "start" /\ op'.who = c /\ cRunning[c]) =>
                  /\ cThreads'[c] = cThreads[c]
                  /\ cRunning'[c] ]_vars

\* the handler of A has raised, start() has been called again with the flag
\* still set, and a datagram that arrived since waits undelivered
C20_Witness ==
  /\ Crashed("A")
  /\ cRunning["A"]
  /\ op = Op("start", "A")
  /\ cQueue["A"] # <<>>
  /\ Len(recvd["A"]) = Len(handled["A"])

\* C26 as claimed: once stop() has returned on an instance (its socket is
\* closed, and stays so), the server registers and forwards no datagram and
\* the client passes none to its handler, whatever start() calls follow.
C26_StoppedIsTerminal ==
  /\ op.name = "s_process" => sSock # "closed"
  /\ \A c \in Clients :
       (op.name = "c_handle" /\ op.who = c) => cSock[c] # "closed"

\* C28: between a stop() that cleared the running flag and the next start(),
\* the server's loop registers and forwards at most one datagram and the
\* client's loop calls its handler at most once.
C28_AtMostOneAfterStop ==
  \A w \in {"server"} \cup Clients : late[w] <= 1

\* a stopped server and a stopped client that each handled one more datagram
C28_Witness ==
  /\ ~sRunning /\ late["server"] = 1
  /\ ~cRunning["A"] /\ late["A"] = 1
  /\ \A t \in 1..Len(sThreads) : ~Alive(sThreads[t])
  /\ \A t \in 1..Len(cThreads["A"]) : ~Alive(cThreads["A"][t])

\* C29: the server sends only while it processes a datagram, and then only
\* that datagram, to the addresses that were in the registry before the
\* datagram was processed and are not its sender; an address that is not in
\* the registry then (never heard from, or evicted and not heard from since)
\* is sent nothing, and an address that was evicted and has registered again
\* is sent every datagram of another peer processed from then on.
C29_NoBufferNoReplay ==
  [][ IF op'.name = "s_process"
      THEN /\ \E t \in 1..Len(sThreads) :
                /\ sThreads[t].pc = "got"
                /\ sThreads'[t].pc = "sweep"
                /\ fan'.src = sThreads[t].addr
                /\ fan'.data = sThreads[t].data
           /\ \A i \in DOMAIN fan'.attempts :
                /\ fan'.attempts[i].data = fan'.data
                /\ fan'.attempts[i].to \in Range(DictKeys(clients))
                /\ fan'.attempts[i].to # fan'.src
           /\ \A k \in Range(DictKeys(clients)) \ {fan'.src} :
                Cardinality({i \in DOMAIN fan'.attempts :
                               fan'.attempts[i].to = k}) = 1
      ELSE fan'.attempts = fan.attempts /\ fan'.data = fan.data ]_vars

\* a datagram sent to a peer that was evicted and has registered again, from
\* a server that processed an earlier datagram while that peer was absent
C29_Witness ==
  /\ op.name = "s_process"
  /\ \E i \in DOMAIN fan.attempts : fan.attempts[i].to \in evicted

(* ----------------------- properties of find_path ---------------------- *)
\* the cell a position lies in: the c with c * cell <= x < (c + 1) * cell
CellOf(w, p) ==
  LET Index(x) == CHOOSE c \in -1..(x + 1) :
                    c * w.cell <= x /\ x < (c + 1) * w.cell
  IN <<Index(p[1]), Index(p[2])>>

InBounds(w, c) == c[1] \in 0..(w.cols - 1) /\ c[2] \in 0..(w.rows - 1)

\* the cell has a tile and that tile is water
BlockedKind(w, c) ==
  /\ InBounds(w, c)
  /\ c[2] * w.cols + c[1] < Len(w.tiles)
  /\ w.tiles[c[2] * w.cols + c[1] + 1] = "water"

\* in bounds, with a tile, and not water
Walkable(w, c) ==
  /\ InBounds(w, c)
  /\ c[2] * w.cols + c[1] < Len(w.tiles)
  /\ w.tiles[c[2] * w.cols + c[1] + 1] # "water"

Adjacent(a, b) == Abs(a[1] - b[1]) + Abs(a[2] - b[2]) = 1

\* breadth-first layers over the walkable cells: the number of steps from
\* the cells of frontier, d steps from the start, to b, or -1
RECURSIVE Layers(_, _, _, _, _)
Layers(w, frontier, seen, b, d) ==
  IF b \in frontier THEN d
  ELSE IF frontier = {} THEN -1
  ELSE LET next == {c \in (0..(w.cols - 1)) \X (0..(w.rows - 1)) :
                      /\ c \notin seen
                      /\ Walkable(w, c)
                      /\ \E x \in frontier : Adjacent(x, c)}
       IN Layers(w, next, {c : c \in seen \cup next}, b, d + 1)

\* the shortest 4-connected walkable distance from a to b, -1 if there is
\* no way
Distance(w, a, b) ==
  IF Walkable(w, a) /\ Walkable(w, b) THEN Layers(w, {a}, {a}, b, 0) ELSE -1

CenterOf(w, c) ==
  <<((2 * c[1] + 1) * w.cell) \div 2, ((2 * c[2] + 1) * w.cell) \div 2>>

StartCell == CellOf(world, start_pos)

GoalCell == CellOf(world, target_pos)

\* C11: when the cells of start and goal are walkable and connected, the
\* call returns a path of (shortest walkable distance + 1) waypoints that
\* begins at the center of the start cell and ends at the center of the
\* goal cell.
C11_ShortestPath ==
  (first.made /\ Distance(world, StartCell, GoalCell) >= 0) =>
    /\ search.result # <<>>
    /\ Len(search.result) = Distance(world, StartCell, GoalCell) + 1
    /\ search.result[1] = CenterOf(world, StartCell)
    /\ search.result[Len(search.result)] = CenterOf(world, GoalCell)

\* a way round a water tile was returned: longer than the straight line
C11_Witness ==
  /\ first.made
  /\ world \in SmallWorlds
  /\ search.result # <<>>
  /\ Len(search.result) > heuristic(StartCell, GoalCell) + 1

\* C12: the call returns the empty path when the start or the goal cell is
\* out of bounds or water, and when there is no walkable way from the one
\* to the other.
C12_NoRouteIsEmpty ==
  first.made =>
    /\ (\/ ~InBounds(world, StartCell) \/ ~InBounds(world, GoalCell)
        \/ BlockedKind(world, StartCell) \/ BlockedKind(world, GoalCell))
       => search.result = <<>>
    /\ Distance(world, StartCell, GoalCell) < 0 => search.result = <<>>

\* both cells are walkable, the search ran out of cells and returned empty
C12_Witness ==
  /\ first.made
  /\ Walkable(world, StartCell) /\ Walkable(world, GoalCell)
  /\ Len(search.pops) > 1
  /\ search.result = <<>>

\* C13: on the 10 by 10 world with the wall in column 5, the call from the
\* center of cell (0,0) to the center of cell (9,0) returns 28 waypoints,
\* one of them the center of cell (5,9).
C13_WallDetour ==
  (/\ first.made /\ world = WallWorld
   /\ start_pos = <<16, 16>> /\ target_pos = <<304, 16>>) =>
    /\ Len(search.result) = 9 + 9 + 9 + 1
    /\ \E k \in 1..Len(search.result) : search.result[k] = <<176, 304>>

C13_Witness ==
  /\ world = WallWorld
  /\ start_pos = <<16, 16>> /\ target_pos = <<304, 16>>
  /\ search.result # <<>>
  /\ search.result[1] = <<16, 16>>

C15_WorldUntouched ==
  [][ /\ world'.cell = world.cell
      /\ world'.cols = world.cols
      /\ world'.rows = world.rows
      /\ world'.tiles = world.tiles ]_vars

\* the way there and the way back were found, past visited cells
C15_Witness ==
  /\ first.made /\ first.other
  /\ world = WallWorld
  /\ Cardinality(search.visited) > 1
  /\ search.result # <<>>

\* C22: a path that is not empty lists the centers of walkable cells, the
\* start cell first and the goal cell last, each next cell one step along
\* one axis from the one before, and no cell twice.
C22_PathWellFormed ==
  (first.made /\ search.result # <<>>) =>
    LET path == search.result
        cells == [k \in 1..Len(path) |-> CellOf(world, path[k])]
    IN /\ \A k \in 1..Len(path) :
            /\ path[k] = CenterOf(world, cells[k])
            /\ Walkable(world, cells[k])
       /\ cells[1] = StartCell
       /\ cells[Len(path)] = GoalCell
       /\ \A k \in 1..(Len(path) - 1) : Adjacent(cells[k], cells[k + 1])
       /\ \A i, j \in 1..Len(path) : cells[i] = cells[j] => i = j

\* a path of four waypoints or more that turns a corner
C22_Witness ==
  /\ first.made
  /\ Len(search.result) >= 4
  /\ \E i, j \in 1..Len(search.result) :
       /\ search.result[i][1] # search.result[j][1]
       /\ search.result[i][2] # search.result[j][2]

\* C23: the call returns what the call between the centers of the cells of
\* its two positions returns, and a position with a coordinate below zero
\* has a cell index below zero and gives the empty path.
C23_CellsDecide ==
  first.made =>
    /\ search.result = find_path(world, CenterOf(world, StartCell),
                                 CenterOf(world, GoalCell))
    /\ \A p \in {start_pos, target_pos} :
         (p[1] < 0 \/ p[2] < 0) =>
           /\ LET c == cell_from_pos(world, p[1], p[2])
              IN c[1] < 0 \/ c[2] < 0
           /\ search.result = <<>>

\* a path was found from a corner of a cell, which is not its center
C23_Witness ==
  /\ first.made
  /\ start_pos # CenterOf(world, StartCell)
  /\ Len(search.result) > 1

\* C25 as claimed: World.is_walkable holds at every waypoint of a path
\* returned for a World.
C25_WalkableForTheWorld ==
  first.made =>
    \A k \in 1..Len(search.result) :
      World_is_walkable(world, search.result[k][1], search.result[k][2])

(* ------------------- properties of the search loop -------------------- *)
\* the entry a turn of the loop pops, where it pops one
PopsOne == Len(search'.pops) = Len(search.pops) + 1

Popped == search'.pops[Len(search'.pops)]

\* the place of the popped entry among the entries of the frontier, which
\* stand in the order they were pushed in
PoppedAt == CHOOSE i \in 1..Len(search.open_set) : search.open_set[i] = Popped

\* C21 as claimed: of the entries of the frontier with the f-score of the
\* entry popped, none was pushed before the entry popped.
C21_TiesByInsertion ==
  [][ PopsOne =>
        \A j \in 1..Len(search.open_set) :
          search.open_set[j][1] = Popped[1] => PoppedAt <= j ]_vars

\* C21 as amended: the entry popped has the least f-score of the frontier,
\* and of the entries with that f-score the least cell, by column and then
\* by row, whatever the order they were pushed in.
C21_TiesByCell ==
  [][ PopsOne =>
        \A j \in 1..Len(search.open_set) :
          LET x == search.open_set[j]
          IN /\ Popped[1] <= x[1]
             /\ x[1] = Popped[1] =>
                  \/ Popped[2][1] < x[2][1]
                  \/ Popped[2][1] = x[2][1] /\ Popped[2][2] <= x[2][2] ]_vars

\* an entry was popped although an entry of the same f-score pushed before
\* it was still in the frontier
C21_Witness ==
  /\ search.pops # <<>>
  /\ \E i \in 1..Len(search.pushes) :
       LET e == search.pops[Len(search.pops)]
           x == search.pushes[i]
       IN /\ x[1] = e[1]
          /\ \E j \in (i + 1)..Len(search.pushes) : search.pushes[j] = e
          /\ \A k \in 1..Len(search.pops) : search.pops[k] # x

\* `g_score.get(c, 1_000_000)` in the locals s
Known(s, c) == IF c \in DOMAIN s.g_score THEN s.g_score[c] ELSE Unreached

\* the sum of the g-scores of the cells of the sequence
RECURSIVE SumKnown(_, _)
SumKnown(s, cells) ==
  IF cells = <<>> THEN 0
  ELSE Known(s, Head(cells)) + SumKnown(s, Tail(cells))

CellSeq(w) ==
  [i \in 1..(w.cols * w.rows) |-> <<(i - 1) % w.cols, (i - 1) \div w.cols>>]

\* what is left to do: nothing once the call has returned, else the entries
\* of the frontier and, for every push a later turn can make, the g-scores
\* still to be lowered
Measure(s) ==
  IF s.done THEN 0
  ELSE 1 + Len(s.open_set)
         + Len(Directions) * SumKnown(s, CellSeq(world))

\* C27: every push lowers the g-score of the cell pushed, and every turn of
\* the loop lowers a measure that is never below zero (the frontier pops
\* one entry and gains at most one per g-score lowered), so the loop ends,
\* with the goal or with an empty frontier; the pushes are never more than
\* the g-scores the cells can take; the predecessor links lead to cells of
\* lower g-score, so the walk back along them ends.
C27_Terminates ==
  /\ [][ /\ \A i \in (Len(search.pushes) + 1)..Len(search'.pushes) :
              Known(search', search'.pushes[i][2])
                < Known(search, search'.pushes[i][2])
         /\ (first.made /\ ~search.done) =>
              /\ Measure(search') < Measure(search)
              /\ Len(search'.pops) = Len(search.pops) + 1 \/ search'.done
       ]_vars
  /\ [](/\ Measure(search) >= 0
        /\ Len(search.pops) <= Len(search.pushes)
        /\ Len(search.pushes)
             <= (world.cols * world.rows) * (world.cols * world.rows)
        /\ \A c \in DOMAIN search.came_from :
             Known(search, search.came_from[c]) < Known(search, c))

\* the frontier ran empty after several turns without the goal being
\* reached
C27_Witness ==
  /\ search.done
  /\ search.open_set = <<>>
  /\ search.result = <<>>
  /\ Len(search.pops) >= 3
  /\ DOMAIN search.came_from # {}

\* C30: a cell popped for the first time has the shortest walkable
\* distance from the start cell as its g-score; no turn changes the g-score
\* or the predecessor of a cell that is in the visited set; the start cell
\* never has a predecessor.
C30_FirstPopIsShortest ==
  [][ first.made =>
        /\ (PopsOne /\ Popped[2] \notin search.visited) =>
             Known(search, Popped[2]) = Distance(world, StartCell, Popped[2])
        /\ \A c \in search.visited :
             /\ Known(search', c) = Known(search, c)
             /\ (c \in DOMAIN search'.came_from)
                  = (c \in DOMAIN search.came_from)
             /\ c \in DOMAIN search.came_from =>
                  search'.came_from[c] = search.came_from[c]
        /\ StartCell \notin DOMAIN search'.came_from ]_vars

\* a search that found its goal around water, at a distance longer than the
\* straight way from the start, with three or more cells visited
C30_Witness ==
  /\ search.done
  /\ search.result # <<>>
  /\ Known(search, GoalCell) > heuristic(StartCell, GoalCell)
  /\ Cardinality(search.visited) >= 3

(* ----------------- properties of the network handler ------------------ *)
\* a POS frame of at least four fields, of another id, with numbers for x
\* and y
WellFormedFrame(f) ==
  f.tag = POS /\ f.n >= 4 /\ f.pid # NetId /\ f.x.num /\ f.y.num

\* C24: a well-formed POS frame of another id sets the entry of that id to
\* its (x, y) and leaves the other entries alone; every other frame (own
\* id, fewer than four fields, x or y not a number, another tag) leaves
\* other_players unchanged; the own id is never a key.
C24_LastWriteWins ==
  [][ /\ WellFormedFrame(frame') =>
           /\ DOMAIN other_players' = DOMAIN other_players \cup {frame'.pid}
           /\ other_players'[frame'.pid] =
                [x |-> frame'.x.val, y |-> frame'.y.val]
           /\ \A p \in DOMAIN other_players \ {frame'.pid} :
                other_players'[p] = other_players[p]
      /\ ~WellFormedFrame(frame') => other_players' = other_players
      /\ NetId \notin DOMAIN other_players' ]_vars

\* a frame has replaced the position an earlier frame gave for the same id,
\* with both peers known
C24_Witness ==
  /\ WellFormedFrame(frame)
  /\ frame.was.key
  /\ frame.was.x # other_players[frame.pid].x
  /\ DOMAIN other_players = PeerIds

====
